---- MODULE Spec2Model ----
(***************************************************************************)
(* Model of the generate pipeline of cuprj-cli (src/cuprj-cli.py):         *)
(* BusGenerator._process_slaves, BusGenerator.generate_verilog and the     *)
(* two artifact writes of generate_command.                                *)
(*                                                                         *)
(* Python values that may be an int or a str (pin numbers, cell counts)    *)
(* are records [kind, n]: kind "int" is the integer n, kind "numstr" is a  *)
(* decimal string that int() parses to n, kind "text" is a string int()    *)
(* rejects.  Optional[int] is a record [set, n].  Address literals are     *)
(* records [form, digits] whose digits are hexadecimal digit values.       *)
(***************************************************************************)
EXTENDS Integers, Sequences, FiniteSets, TLC

VARIABLES bus_slaves, pc, idx, k, processed_slaves, io_oen_assignments,
          error, warnings, files, lines, inst_lines, header_code,
          run, first

vars == <<bus_slaves, pc, idx, k, processed_slaves, io_oen_assignments,
          error, warnings, files, lines, inst_lines, header_code,
          run, first>>

\* The text being built: the lines of generate_verilog that depend on the
\* configuration, the port list of the instance under construction, and the
\* #define lines of generate_c_header.
text == <<lines, inst_lines, header_code>>

\* Which execution this is (1: the first; 2: a second process on the same
\* inputs; 3: a second generate_verilog() call on the same generator) and
\* what the first one ended with.
hist == <<run, first>>

----------------------------------------------------------------------------
(* Bounds and program constants *)

MaxSlaves == 2

base_addr_start == 268435456

base_addr_offset == 65536

SLAVE_ADDR_SIZE == 65536

LastPin == 37

MaxIrq == 2

----------------------------------------------------------------------------
(* Python value helpers *)

IntV(n) == [kind |-> "int", n |-> n]

StrV(n) == [kind |-> "numstr", n |-> n]

TextV == [kind |-> "text", n |-> 0]

AbsentV == [kind |-> "absent", n |-> 0]

\* int(v): a ValueError for a string that is no integer literal.
PyInt(v) == IF v.kind = "text" THEN [ok |-> FALSE, n |-> 0]
            ELSE [ok |-> TRUE, n |-> v.n]

\* str(v).isdigit(): only decimal digits, so no sign.
IsDigit(v) == v.kind \in {"int", "numstr"} /\ v.n >= 0

NoIrq == [set |-> FALSE, n |-> 0]

Irq(n) == [set |-> TRUE, n |-> n]

\* str.upper() on the bus, type and instance names in use.
Upper(s) == CASE s = "wb" -> "WB"
              [] s = "generic" -> "GENERIC"
              [] s = "uart" -> "UART"
              [] s = "gpio" -> "GPIO"
              [] s = "odd" -> "ODD"
              [] s = "nope" -> "NOPE"
              [] s = "spi" -> "SPI"
              [] s = "tmr" -> "TMR"
              [] s = "pwm" -> "PWM"
              [] s = "dac" -> "DAC"
              [] s = "uart0" -> "UART0"
              [] s = "dev1" -> "DEV1"
              [] s = "dev2" -> "DEV2"
              [] s = "dev3" -> "DEV3"
              [] OTHER -> s

\* str.lower() on the direction names in use.
Lower(s) == CASE s = "Input" -> "input"
              [] s = "Output" -> "output"
              [] s = "OUTPUT" -> "output"
              [] s = "INPUT" -> "input"
              [] OTHER -> s

RECURSIVE HexDigits(_)
\* hex(n)[2:].upper() as a sequence of digit values, most significant first.
HexDigits(n) == IF n < 16 THEN <<n>> ELSE Append(HexDigits(n \div 16), n % 16)

RECURSIVE HexValue(_)
\* The number a sequence of hexadecimal digits denotes.
HexValue(ds) == IF ds = <<>> THEN 0
                ELSE 16 * HexValue(SubSeq(ds, 1, Len(ds) - 1)) + ds[Len(ds)]

NoAddr == [form |-> "None", digits |-> <<>>]

EmptyAddr == [form |-> "empty", digits |-> <<>>]

VHex(n) == [form |-> "vhex", digits |-> HexDigits(n)]

CHex(n) == [form |-> "chex", digits |-> HexDigits(n)]

\* "32'H..." with a capital H.
VHexUpper(n) == [form |-> "vHex", digits |-> HexDigits(n)]

RECURSIVE DecDigits(_)
\* str(n) as a sequence of decimal digit values.
DecDigits(n) == IF n < 10 THEN <<n>> ELSE Append(DecDigits(n \div 10), n % 10)

RECURSIVE DecValue(_)
\* int(s, 0) of a string of decimal digits.
DecValue(ds) == IF ds = <<>> THEN 0
                ELSE 10 * DecValue(SubSeq(ds, 1, Len(ds) - 1)) + ds[Len(ds)]

\* A decimal literal such as "805306368".
Dec(n) == [form |-> "dec", digits |-> DecDigits(n)]

\* A string that is no number in any notation, such as "BASE".
TextAddr == [form |-> "text", digits |-> <<>>]

\* Python truthiness of Optional[str]: None and "" are falsy.
Truthy(addr) == addr.form \notin {"None", "empty"}

----------------------------------------------------------------------------
(* The IP library *)

Iface(name, port, direction, width, oc) ==
    [name |-> name, port |-> port, direction |-> direction, width |-> width,
     output_control |-> oc]

ip_library ==
    << [name |-> "uart", bus |-> <<"WB">>,
        cell_count |-> << ("WB" :> IntV(120)) >>,
        flags |-> TRUE,
        external_interface |-> << Iface("rx", "rx_i", "input", 1, FALSE),
                                  Iface("tx", "tx_o", "output", 1, FALSE) >>],
       [name |-> "gpio", bus |-> <<"generic">>,
        cell_count |-> << ("AHB" :> IntV(300)), ("WB" :> StrV(80)) >>,
        flags |-> FALSE,
        external_interface |-> << Iface("tx", "io_o", "Output", 2, FALSE),
                                  Iface("en", "io_oe", "OUTPUT", 2, TRUE) >>],
       [name |-> "odd", bus |-> <<"AHB">>,
        cell_count |-> << ("WB" :> IntV(50)) >>,
        flags |-> TRUE,
        external_interface |-> << Iface("rx", "d_io", "inout", 1, FALSE) >>],
       [name |-> "spi", bus |-> <<"wb">>,
        cell_count |-> << ("WB" :> TextV) >>,
        flags |-> TRUE,
        external_interface |-> << >>],
       [name |-> "tmr", bus |-> <<"AHB", "APB">>,
        cell_count |-> << ("WB" :> IntV(50)) >>,
        flags |-> FALSE,
        external_interface |-> << >>],
       [name |-> "pwm", bus |-> <<"GENERIC">>,
        cell_count |-> << ("AHB" :> IntV(10)) >>,
        flags |-> TRUE,
        external_interface |-> << >>],
       [name |-> "dac", bus |-> <<"WB">>,
        cell_count |-> << ("WB" :> IntV(-5)) >>,
        flags |-> TRUE,
        external_interface |-> << >>] >>

\* The keys of ip_dict: {entry.info.name: entry for entry in self.slaves}.
IpDictKeys == {ip_library[i].name : i \in 1..Len(ip_library)}

\* ip_dict[t]: the dict comprehension keeps the last entry of a name.
IpDict(t) ==
    LET hits == {i \in 1..Len(ip_library) : ip_library[i].name = t}
    IN ip_library[CHOOSE i \in hits : \A j \in hits : j <= i]

InIpDictLoose(t) == \E i \in 1..Len(ip_library) : Upper(ip_library[i].name) = Upper(t)

\* slave.type in ip_dict: exact-name membership.
InIpDict(t) == \E i \in 1..Len(ip_library) : ip_library[i].name = t

----------------------------------------------------------------------------
(* The bus configurations *)

Keys == {"rx", "tx", "en"}

IoPins(r, t, e) ==
    LET full == [key \in Keys |-> CASE key = "rx" -> r
                                    [] key = "tx" -> t
                                    [] OTHER -> e]
    IN [key \in {x \in Keys : full[x].kind # "absent"} |-> full[key]]

InstanceNames == <<"uart0", "dev1", "dev2", "dev3">>

FullValues == {AbsentV, IntV(-1), IntV(5), IntV(37), IntV(38), StrV(6), TextV}

FullTables == {IoPins(r, t, e) : r \in FullValues, t \in FullValues,
                                 e \in {AbsentV, IntV(5), IntV(37), TextV}}

FullSlaves ==
    [type : {"uart", "gpio", "odd", "UART", "nope"},
     base_address : {NoAddr, EmptyAddr, VHex(268500992), CHex(805306368),
                     VHexUpper(805306368), Dec(805306368), TextAddr},
     io_pins : FullTables,
     irq : {NoIrq, Irq(0), Irq(2), Irq(3), Irq(-1)}]

CoreTables == {IoPins(IntV(5), IntV(6), AbsentV),
               IoPins(IntV(5), AbsentV, AbsentV),
               IoPins(AbsentV, IntV(5), IntV(5)),
               IoPins(IntV(5), IntV(6), TextV)}

CoreSlaves ==
    [type : {"uart", "gpio", "UART"},
     base_address : {NoAddr, VHex(268500992)},
     io_pins : CoreTables,
     irq : {NoIrq, Irq(3)}]

CostSlaves ==
    [type : {"spi", "tmr", "pwm", "dac"},
     base_address : {NoAddr, Dec(805306368)},
     io_pins : CoreTables,
     irq : {NoIrq, Irq(1)}]

Named(s, i) == [name |-> InstanceNames[i], type |-> s.type,
                base_address |-> s.base_address, io_pins |-> s.io_pins,
                irq |-> s.irq]

\* The configurations parse_bus_slaves hands over: one slave of any shape, or
\* up to MaxSlaves slaves of the core shapes.
IsConfig(slaves) ==
    \/ \E s \in FullSlaves \cup CostSlaves : slaves = <<Named(s, 1)>>
    \/ \E n \in 0..MaxSlaves : \E c \in [1..n -> CoreSlaves] :
           slaves = [i \in 1..n |-> Named(c[i], i)]

----------------------------------------------------------------------------
(* _process_slaves *)

Err(kind, slave, iface) == [kind |-> kind, slave |-> slave, iface |-> iface]

NoError == Err("None", 0, "")

AbortIrqLate(kind, cont) == IF kind = "InterruptOutOfRange" THEN cont ELSE "exit"

\* sys.exit(1): the run stops, whatever would have followed.
Abort(kind, cont) == "exit"

SupportsWB(info) == \E i \in 1..Len(info.bus) : Upper(info.bus[i]) \in {"WB", "GENERIC"}

CellCountAnyBus(info) ==
    LET hits == {i \in 1..Len(info.cell_count) : "WB" \in DOMAIN info.cell_count[i]}
    IN IF hits = {} THEN 0
       ELSE LET e == info.cell_count[CHOOSE i \in hits : \A j \in hits : i <= j]
            IN IF IsDigit(e["WB"]) THEN PyInt(e["WB"]).n ELSE 0

CellCount(info) ==
    IF ~SupportsWB(info) THEN 0
    ELSE LET hits == {i \in 1..Len(info.cell_count) : "WB" \in DOMAIN info.cell_count[i]}
         IN IF hits = {} THEN 0
            ELSE LET e == info.cell_count[CHOOSE i \in hits : \A j \in hits : i <= j]
                 IN IF IsDigit(e["WB"]) THEN PyInt(e["WB"]).n ELSE 0

LacksIrqSupportInRange(slave, entry) ==
    slave.irq.set /\ ~entry.flags /\ slave.irq.n >= 0 /\ slave.irq.n <= MaxIrq

LacksIrqSupportNever(slave, entry) == FALSE

LacksIrqSupport(slave, entry) == slave.irq.set /\ ~entry.flags

ComputedAddrDense(slaves, i) ==
    base_addr_start
    + Cardinality({j \in 1..(i - 1) : ~Truthy(slaves[j].base_address)}) * base_addr_offset

ComputedAddrFlat(slaves, i) == base_addr_start

\* base_addr_start + idx * base_addr_offset, idx the zero-based position
\* (the model's positions are one-based).
ComputedAddr(slaves, i) == base_addr_start + (i - 1) * base_addr_offset

BaseAddress(slaves, i) ==
    IF Truthy(slaves[i].base_address) THEN slaves[i].base_address
    ELSE VHex(ComputedAddr(slaves, i))

convert_io_pins_used(slave) ==
    LET used == IF InIpDict(slave.type)
                THEN {IpDict(slave.type).external_interface[j].name
                        : j \in 1..Len(IpDict(slave.type).external_interface)}
                ELSE {}
        pins == slave.io_pins
    IN IF \E key \in DOMAIN pins \cap used : ~PyInt(pins[key]).ok
       THEN [ok |-> FALSE, pins |-> pins]
       ELSE [ok |-> TRUE,
             pins |-> [key \in DOMAIN pins |->
                         IF PyInt(pins[key]).ok THEN IntV(PyInt(pins[key]).n)
                         ELSE pins[key]]]

convert_io_pins_lazy(slave) == [ok |-> TRUE, pins |-> slave.io_pins]

\* {k: int(v) for k, v in io_pins.items()}, any exception being fatal.
convert_io_pins(slave) ==
    LET pins == slave.io_pins
    IN IF \E key \in DOMAIN pins : ~PyInt(pins[key]).ok
       THEN [ok |-> FALSE, pins |-> pins]
       ELSE [ok |-> TRUE, pins |-> [key \in DOMAIN pins |-> IntV(PyInt(pins[key]).n)]]

\* One line of the interconnect text whose content depends on the
\* configuration: its kind and the values interpolated into it.
Line(t, n, m) == [t |-> t, n |-> n, m |-> m, name |-> "", type |-> "",
                  addr |-> NoAddr, ports |-> <<>>]

\* One port connection .port(bus[hi:lo]) of an instance.
Port(port, bus, hi, lo) == [port |-> port, bus |-> bus, hi |-> hi, lo |-> lo]

NoOutcome == [pc |-> "", error |-> NoError, files |-> [v |-> FALSE, h |-> FALSE],
              lines |-> <<>>, header_code |-> <<>>]

Init ==
    /\ IsConfig(bus_slaves)
    /\ pc = "process"
    /\ idx = 1
    /\ k = 1
    /\ processed_slaves = <<>>
    /\ io_oen_assignments = [p \in {} |-> 0]
    /\ error = NoError
    /\ warnings = <<>>
    /\ files = [v |-> FALSE, h |-> FALSE]
    /\ lines = <<>>
    /\ inst_lines = <<>>
    /\ header_code = <<>>
    /\ run = 1
    /\ first = NoOutcome

\* Lines 255-276 for one slave: type lookup, bus/cost, IRQ capability.
BindSlave ==
    /\ pc = "process"
    /\ idx <= Len(bus_slaves)
    /\ LET slave == bus_slaves[idx]
       IN IF ~InIpDict(slave.type)
          THEN /\ error' = Err("UnknownSlaveType", idx, "")
               /\ pc' = Abort("UnknownSlaveType", "exit")
               /\ UNCHANGED warnings
          ELSE IF slave.type \notin IpDictKeys
          THEN \* ip_dict[slave.type] raises KeyError, which nothing catches.
               /\ error' = Err("KeyError", idx, "")
               /\ pc' = "exit"
               /\ UNCHANGED warnings
          ELSE LET lib_entry == IpDict(slave.type)
               IN /\ warnings' = IF SupportsWB(lib_entry) THEN warnings
                                 ELSE Append(warnings, idx)
                  /\ IF LacksIrqSupport(slave, lib_entry)
                     THEN /\ error' = Err("InterruptNotSupported", idx, "")
                          /\ pc' = Abort("InterruptNotSupported", "exit")
                     ELSE /\ pc' = "convert"
                          /\ UNCHANGED error
    /\ UNCHANGED <<bus_slaves, idx, k, processed_slaves, io_oen_assignments, files, text, hist>>

\* Lines 276-287 for one slave: base address, pin conversion, the record.
ConvertSlave ==
    /\ pc = "convert"
    /\ LET slave == bus_slaves[idx]
           lib_entry == IpDict(slave.type)
           conv == convert_io_pins(slave)
       IN IF ~conv.ok
          THEN /\ error' = Err("IoPinConversionError", idx, "")
               /\ pc' = Abort("IoPinConversionError", "exit")
               /\ UNCHANGED <<processed_slaves, idx>>
          ELSE /\ processed_slaves' = Append(processed_slaves,
                     [name |-> slave.name, type |-> slave.type,
                      base_address |-> BaseAddress(bus_slaves, idx),
                      io_pins |-> conv.pins, irq |-> slave.irq,
                      cell_count |-> CellCount(lib_entry),
                      external_interface |-> lib_entry.external_interface])
               /\ idx' = idx + 1
               /\ pc' = "process"
               /\ UNCHANGED error
    /\ UNCHANGED <<bus_slaves, k, io_oen_assignments, warnings, files, text, hist>>

RECURSIVE SumCells(_)
\* sum(slave.cell_count for slave in self.processed_slaves)
SumCells(slaves) == IF slaves = <<>> THEN 0
                    ELSE slaves[1].cell_count + SumCells(Tail(slaves))

KeepLines(prev) == prev

\* lines: List[str] = []
NewLines(prev) == <<>>

\* Lines 290-322: the locals of generate_verilog and the text up to the
\* chip-select assignments.
BeginVerilog ==
    /\ pc' = "connect"
    /\ idx' = 1
    /\ k' = 1
    /\ io_oen_assignments' = [p \in {} |-> 0]
    /\ inst_lines' = <<>>
    /\ lines' = NewLines(lines)
                  \o << Line("TOTAL_WB_CELL_COUNT", SumCells(processed_slaves), 0) >>
                  \o [i \in 1..Len(processed_slaves) |->
                        [Line("wires", i - 1, 0) EXCEPT
                            !.name = processed_slaves[i].name]]
                  \o [i \in 1..Len(processed_slaves) |->
                        [Line("cs", i - 1, 0) EXCEPT
                            !.addr = processed_slaves[i].base_address]]

\* The constructor returns and generate_verilog starts (lines 290-322).
StartGenerate ==
    /\ pc = "process"
    /\ idx > Len(bus_slaves)
    /\ BeginVerilog
    /\ UNCHANGED <<bus_slaves, processed_slaves, error, warnings, files,
                   header_code, hist>>

----------------------------------------------------------------------------
(* generate_verilog: the instance loop *)

LookupPinDefault(io_pins, name) ==
    IF name \in DOMAIN io_pins THEN [found |-> TRUE, v |-> io_pins[name]]
    ELSE [found |-> TRUE, v |-> IntV(0)]

\* iface_name in slave.io_pins, then slave.io_pins[iface_name].
LookupPin(io_pins, name) ==
    IF name \in DOMAIN io_pins THEN [found |-> TRUE, v |-> io_pins[name]]
    ELSE [found |-> FALSE, v |-> IntV(0)]

PinInRangeLoose(p) == 0 <= p /\ p <= LastPin + 1

\* 0 <= p <= 37
PinInRange(p) == 0 <= p /\ p <= LastPin

IrqInRangeLoose(n) == 0 <= n /\ n <= MaxIrq + 1

\* 0 <= slave.irq <= 2
IrqInRange(n) == 0 <= n /\ n <= MaxIrq

\* dict.setdefault(p, v) for every p of ps.
SetDefault(oen, ps, v) ==
    [p \in DOMAIN oen \cup ps |-> IF p \in DOMAIN oen THEN oen[p] ELSE v]

SetAllFirst(oen, ps, v) ==
    [p \in DOMAIN oen \cup ps |-> IF p \in DOMAIN oen THEN oen[p] ELSE v]

\* oen[p] = v for every p of ps.
SetAll(oen, ps, v) ==
    [p \in DOMAIN oen \cup ps |-> IF p \in ps THEN v ELSE oen[p]]

\* Lines 336-367 for one interface: the error kind ("None" if accepted), the
\* pin table after it and the port connection it adds.
ConnectOne(slave, iface, oen) ==
    LET direction == Lower(iface.direction)
        look == LookupPin(slave.io_pins, iface.name)
    IN IF ~look.found THEN [err |-> "MissingPinMapping", oen |-> oen]
       ELSE IF ~PyInt(look.v).ok THEN [err |-> "InvalidPinValue", oen |-> oen]
       ELSE LET pin_start == PyInt(look.v).n
                pin_end == pin_start + iface.width - 1
                ps == pin_start..pin_end
            IN IF ~(\A p \in ps : PinInRange(p))
               THEN [err |-> "PinRangeOutOfBounds", oen |-> oen]
               ELSE IF direction = "input"
                    THEN [err |-> "None", oen |-> SetDefault(oen, ps, 0),
                          port |-> Port(iface.port, "io_in", pin_end, pin_start)]
               ELSE IF direction = "output"
                    THEN IF iface.output_control = TRUE
                         THEN [err |-> "None", oen |-> SetAll(oen, ps, 2),
                               port |-> Port(iface.port, "io_oen", pin_end, pin_start)]
                         ELSE [err |-> "None", oen |-> SetDefault(oen, ps, 1),
                               port |-> Port(iface.port, "io_out", pin_end, pin_start)]
               ELSE [err |-> "UnknownDirection", oen |-> oen]

\* One iteration of the interface loop of the slave being instantiated.
ConnectInterface ==
    /\ pc = "connect"
    /\ idx <= Len(processed_slaves)
    /\ k <= Len(processed_slaves[idx].external_interface)
    /\ LET slave == processed_slaves[idx]
           iface == slave.external_interface[k]
           r == ConnectOne(slave, iface, io_oen_assignments)
       IN IF r.err # "None"
          THEN /\ error' = Err(r.err, idx, iface.name)
               /\ pc' = Abort(r.err, "exit")
               /\ UNCHANGED <<k, io_oen_assignments, inst_lines>>
          ELSE /\ io_oen_assignments' = r.oen
               /\ inst_lines' = Append(inst_lines, r.port)
               /\ k' = k + 1
               /\ UNCHANGED <<pc, error>>
    /\ UNCHANGED <<bus_slaves, idx, processed_slaves, warnings, files,
                   lines, header_code, hist>>

\* Lines 368-377 (with the comment of line 324): the IRQ range check that
\* ends a slave's instantiation, and the instance it adds to the text.
CheckIrq ==
    /\ pc = "connect"
    /\ idx <= Len(processed_slaves)
    /\ k > Len(processed_slaves[idx].external_interface)
    /\ LET slave == processed_slaves[idx]
           irq_port == IF slave.irq.set
                       THEN << Port("IRQ", "user_irq", slave.irq.n, slave.irq.n) >>
                       ELSE << >>
       IN IF slave.irq.set /\ ~IrqInRange(slave.irq.n)
          THEN /\ error' = Err("InterruptOutOfRange", idx, "")
               /\ pc' = Abort("InterruptOutOfRange", "connect")
               /\ UNCHANGED lines
          ELSE /\ lines' = Append(lines,
                     [Line("instance", idx - 1, 0) EXCEPT
                         !.name = slave.name, !.type = slave.type,
                         !.ports = inst_lines \o irq_port])
               /\ UNCHANGED <<pc, error>>
    /\ idx' = idx + 1
    /\ k' = 1
    /\ inst_lines' = <<>>
    /\ UNCHANGED <<bus_slaves, processed_slaves, io_oen_assignments, warnings, files,
                   header_code, hist>>

DefaultPinLinesSwapped(oen, pin) ==
    IF pin \notin DOMAIN oen
    THEN << Line("io_oen", pin, 1), Line("io_out", pin, 0) >>
    ELSE IF oen[pin] = 0 THEN << Line("io_oen", pin, 1) >>
    ELSE IF oen[pin] = 1 THEN << Line("io_oen", pin, 0) >>
    ELSE << >>

\* Lines 401-407: the fixed assignments of one pin.
DefaultPinLines(oen, pin) ==
    IF pin \notin DOMAIN oen
    THEN << Line("io_oen", pin, 1), Line("io_out", pin, 0) >>
    ELSE IF oen[pin] = 0 THEN << Line("io_oen", pin, 0) >>
    ELSE IF oen[pin] = 1 THEN << Line("io_oen", pin, 1) >>
    ELSE << >>

RECURSIVE PinLines(_, _)
\* for pin in range(0, 38), started as PinLines(oen, 0).
PinLines(oen, pin) ==
    IF pin > LastPin THEN << >>
    ELSE DefaultPinLines(oen, pin) \o PinLines(oen, pin + 1)

\* Lines 382-389: one multiplexer branch per slave.
MuxLines(slaves) ==
    [i \in 1..Len(slaves) |->
        [Line("mux", i - 1, 0) EXCEPT !.type = IF i = 1 THEN "if" ELSE "else if"]]

\* Lines 378-410 and generate_wrapper: the text is complete.
FinishGenerate ==
    /\ pc = "connect"
    /\ idx > Len(processed_slaves)
    /\ pc' = "write_v"
    /\ lines' = lines \o MuxLines(processed_slaves)
                      \o PinLines(io_oen_assignments, 0)
    /\ UNCHANGED <<bus_slaves, idx, k, processed_slaves, io_oen_assignments,
                   error, warnings, files, inst_lines, header_code, hist>>

----------------------------------------------------------------------------
(* generate_command: the two artifact writes *)

\* Lines 558-564: open() and write() succeed, or the run ends.
WriteVerilog ==
    /\ pc = "write_v"
    /\ \/ /\ files' = [files EXCEPT !.v = TRUE]
          /\ pc' = "write_h"
          /\ UNCHANGED error
       \/ /\ error' = Err("WriteFailed", 0, "v")
          /\ pc' = "exit"
          /\ UNCHANGED files
    /\ UNCHANGED <<bus_slaves, idx, k, processed_slaves, io_oen_assignments, warnings,
                   text, hist>>

ConvertKeepVerilog(addr) ==
    IF addr.form = "chex" THEN addr
    ELSE IF addr.form = "dec" THEN CHex(DecValue(addr.digits))
    ELSE addr

\* Lines 490-499 on the address forms in use.
convert_base_address_to_c_format(addr) ==
    IF addr.form \in {"vhex", "vHex"} THEN [form |-> "chex", digits |-> addr.digits]
    ELSE IF addr.form = "chex" THEN addr
    ELSE IF addr.form = "dec" THEN CHex(DecValue(addr.digits))
    ELSE addr

\* Lines 523-526: the #define lines.
generate_c_header(slaves) ==
    [i \in 1..Len(slaves) |->
        [macro_name |-> <<Upper(slaves[i].name), "_BASE">>,
         base_addr_c |-> convert_base_address_to_c_format(slaves[i].base_address)]]

\* Lines 566-580.
WriteHeader ==
    /\ pc = "write_h"
    /\ \/ /\ files' = [files EXCEPT !.h = TRUE]
          /\ pc' = "done"
          /\ UNCHANGED error
       \/ /\ error' = Err("WriteFailed", 0, "h")
          /\ pc' = "exit"
          /\ UNCHANGED files
    /\ header_code' = generate_c_header(processed_slaves)
    /\ UNCHANGED <<bus_slaves, idx, k, processed_slaves, io_oen_assignments, warnings,
                   lines, inst_lines, hist>>

Next ==
    \/ BindSlave
    \/ ConvertSlave
    \/ StartGenerate
    \/ ConnectInterface
    \/ CheckIrq
    \/ FinishGenerate
    \/ WriteVerilog
    \/ WriteHeader

Spec == Init /\ [][Next]_vars

----------------------------------------------------------------------------
(* The same inputs used a second time *)

\* What an execution ended with.
Outcome == [pc |-> pc, error |-> error, files |-> files,
            lines |-> lines, header_code |-> header_code]

\* The command is run again on the same files: main() starts over (lines
\* 545-548) with a new BusGenerator, whose fields lines 240-249 initialise,
\* on the same slave sequence and catalog.
Rerun ==
    /\ run = 1
    /\ pc \in {"done", "exit"}
    /\ first' = Outcome
    /\ run' = 2
    /\ pc' = "process"
    /\ idx' = 1
    /\ k' = 1
    /\ processed_slaves' = <<>>
    /\ io_oen_assignments' = [p \in {} |-> 0]
    /\ error' = NoError
    /\ warnings' = <<>>
    /\ files' = [v |-> FALSE, h |-> FALSE]
    /\ lines' = <<>>
    /\ inst_lines' = <<>>
    /\ header_code' = <<>>
    /\ UNCHANGED bus_slaves

\* generate_verilog() is called once more on the same generator, hence on
\* the same processed_slaves (lines 289-292 run again).
Reemit ==
    /\ run = 1
    /\ pc = "done"
    /\ first' = Outcome
    /\ run' = 3
    /\ BeginVerilog
    /\ UNCHANGED <<bus_slaves, processed_slaves, error, warnings, files, header_code>>

NextTwice ==
    \/ Next
    \/ Rerun
    \/ Reemit

SpecTwice == Init /\ [][NextTwice]_vars

----------------------------------------------------------------------------
(* Vocabulary of the properties *)

ValidationErrors ==
    {"UnknownSlaveType", "InterruptNotSupported", "InterruptOutOfRange",
     "MissingPinMapping", "InvalidPinValue", "PinRangeOutOfBounds",
     "UnknownDirection", "IoPinConversionError"}

NoFiles == [v |-> FALSE, h |-> FALSE]

Positions == 1..Len(bus_slaves)

\* The number the resolved base address of the i-th processed slave denotes.
ResolvedValue(i) == HexValue(processed_slaves[i].base_address.digits)

\* The catalog has no entry of exactly this name.
AbsentType(t) == \A e \in 1..Len(ip_library) : ip_library[e].name # t

\* The catalog entry of this name has no interrupt-descriptor block.
NotInterruptCapable(t) ==
    \E e \in 1..Len(ip_library) : ip_library[e].name = t /\ ~ip_library[e].flags

\* The interfaces the catalog declares for this type.
InterfacesOf(t) ==
    UNION {{ip_library[e].external_interface[j]
              : j \in 1..Len(ip_library[e].external_interface)}
           : e \in {x \in 1..Len(ip_library) : ip_library[x].name = t}}

OutsideIrqBus(irq) == irq.set /\ (irq.n < 0 \/ irq.n > 2)

ParsesNonNegative(v) == v.kind \in {"int", "numstr"} /\ v.n >= 0

\* The run is in pin resolution, about to examine interface k of slave idx.
AtInterface ==
    /\ pc = "connect"
    /\ idx <= Len(processed_slaves)
    /\ k <= Len(processed_slaves[idx].external_interface)

\* The run failed at an interface whose configured pin value is v.
FailedAtMappedInterface ==
    /\ pc = "exit"
    /\ error.slave \in Positions
    /\ error.iface \in DOMAIN bus_slaves[error.slave].io_pins

----------------------------------------------------------------------------
(* C1 *)

\* C1: every processed slave that has no fixed base address gets the literal
\* 32'h<hex> whose value is 0x10000000 + index * 0x10000, index being its
\* zero-based position among ALL slaves of the configuration.
C1_ComputedBaseAddress ==
    \A i \in 1..Len(processed_slaves) :
        bus_slaves[i].base_address \in {NoAddr, EmptyAddr} =>
            /\ processed_slaves[i].base_address.form = "vhex"
            /\ ResolvedValue(i) = 268435456 + (i - 1) * 65536

C1_Witness ==
    /\ Len(processed_slaves) >= 2
    /\ Truthy(bus_slaves[1].base_address)
    /\ bus_slaves[2].base_address = NoAddr
    /\ ResolvedValue(2) = 268435456 + 65536

(* C2 *)

\* C2: the regions [base, base + 0x10000) of the slaves whose base address
\* was computed are strictly increasing in declaration order and disjoint.
C2_ComputedRegionsDisjoint ==
    \A i, j \in 1..Len(processed_slaves) :
        (i < j /\ ~Truthy(bus_slaves[i].base_address)
               /\ ~Truthy(bus_slaves[j].base_address)) =>
            /\ ResolvedValue(i) < ResolvedValue(j)
            /\ ResolvedValue(i) + SLAVE_ADDR_SIZE <= ResolvedValue(j)

C2_Witness ==
    /\ pc = "done"
    /\ Len(processed_slaves) >= 2
    /\ ~Truthy(bus_slaves[1].base_address)
    /\ ~Truthy(bus_slaves[2].base_address)

(* C3 *)

\* C3: a run that ended in a fatal validation error has written neither the
\* structural artifact nor the header artifact.
C3_NoArtifactOnValidationError ==
    error.kind \in ValidationErrors => files = NoFiles

C3_Witness ==
    /\ pc = "exit"
    /\ error.kind = "InterruptOutOfRange"
    /\ error.slave = Len(bus_slaves)
    /\ files = NoFiles

(* C4 *)

\* C4: whenever a slave whose type is absent from the catalog (exact name) is
\* bound, the run ends there with UnknownSlaveType for that slave, whatever
\* its other fields and the other slaves are; and a run whose configuration
\* has such a slave never writes an artifact.
C4_UnknownSlaveType ==
    /\ [][(pc = "process" /\ idx <= Len(bus_slaves)
             /\ AbsentType(bus_slaves[idx].type))
          => (pc' = "exit" /\ error' = Err("UnknownSlaveType", idx, "")
                /\ files' = NoFiles)]_vars
    /\ []((\E i \in Positions : AbsentType(bus_slaves[i].type)) => files = NoFiles)

C4_Witness ==
    /\ pc = "exit"
    /\ error = Err("UnknownSlaveType", 2, "")
    /\ bus_slaves[2].type = "UART"
    /\ bus_slaves[2].irq.set
    /\ files = NoFiles

(* C5 *)

\* C5 as stated: every run whose configuration has a slave with an
\* interrupt line outside [0,2] ends in InterruptOutOfRange.
C5_AlwaysInterruptOutOfRange ==
    (pc \in {"exit", "done"} /\ \E i \in Positions : OutsideIrqBus(bus_slaves[i].irq))
        => error.kind = "InterruptOutOfRange"

\* C5 amended: such a run never succeeds and writes no artifact, it ends in a
\* fatal validation error, and the error is InterruptOutOfRange for that
\* slave whenever the run reaches the slave's interrupt range check.
C5_InterruptOutOfRange ==
    /\ []((\E i \in Positions : OutsideIrqBus(bus_slaves[i].irq))
            => /\ pc # "done"
               /\ files = NoFiles
               /\ (pc = "exit" => error.kind \in ValidationErrors))
    /\ [][(pc = "connect" /\ idx <= Len(processed_slaves)
             /\ k > Len(processed_slaves[idx].external_interface)
             /\ OutsideIrqBus(bus_slaves[idx].irq))
          => (pc' = "exit" /\ error' = Err("InterruptOutOfRange", idx, ""))]_vars

C5_Witness ==
    /\ pc = "exit"
    /\ error.kind = "InterruptOutOfRange"
    /\ bus_slaves[error.slave].irq = Irq(3)

(* C6 *)

\* C6: whenever pin resolution examines an interface whose range
\* [pinStart, pinStart + width - 1] includes index 38 or higher, the run ends
\* there with PinRangeOutOfBounds for that interface; an interface is
\* accepted only if every index of its range lies in [0, 37]; and the
\* configuration uart{rx: 37, tx: 38} fails with PinRangeOutOfBounds for tx.
C6_PinRangeOutOfBounds ==
    /\ [][(AtInterface
             /\ LET iface == processed_slaves[idx].external_interface[k]
                    pins == processed_slaves[idx].io_pins
                IN /\ iface.name \in DOMAIN pins
                   /\ pins[iface.name].n + iface.width - 1 >= 38)
          => (pc' = "exit"
                /\ error' = Err("PinRangeOutOfBounds", idx,
                                processed_slaves[idx].external_interface[k].name))]_vars
    /\ [][(AtInterface /\ pc' = "connect" /\ k' = k + 1)
          => LET iface == processed_slaves[idx].external_interface[k]
                 pins == processed_slaves[idx].io_pins
             IN /\ iface.name \in DOMAIN pins
                /\ \A p \in pins[iface.name].n .. (pins[iface.name].n + iface.width - 1) :
                       0 <= p /\ p <= 37]_vars
    /\ []((pc \in {"exit", "done"} /\ Len(bus_slaves) = 1
             /\ bus_slaves[1].type = "uart"
             /\ bus_slaves[1].io_pins = IoPins(IntV(37), IntV(38), AbsentV))
          => (pc = "exit" /\ error = Err("PinRangeOutOfBounds", 1, "tx")))

C6_Witness ==
    /\ pc = "exit"
    /\ error = Err("PinRangeOutOfBounds", 1, "tx")
    /\ bus_slaves[1].type = "uart"
    /\ bus_slaves[1].io_pins = IoPins(IntV(37), IntV(38), AbsentV)

(* C7 *)

\* C7 as stated: when pin resolution fails at an interface whose mapped value
\* does not parse as a non-negative integer, the error is InvalidPinValue.
C7_InvalidPinValue ==
    (FailedAtMappedInterface
       /\ ~ParsesNonNegative(bus_slaves[error.slave].io_pins[error.iface]))
        => error.kind = "InvalidPinValue"

\* C7 amended: no run reports InvalidPinValue; a non-numeric mapped value
\* never reaches pin resolution (the slave's table is converted, and the run
\* fails, when the slave is processed); a negative integer reaches pin
\* resolution and fails there with PinRangeOutOfBounds.
C7_PinValueErrors ==
    /\ error.kind # "InvalidPinValue"
    /\ \A i \in 1..Len(processed_slaves) : \A key \in DOMAIN bus_slaves[i].io_pins :
           bus_slaves[i].io_pins[key].kind # "text"
    /\ (FailedAtMappedInterface
          /\ ~ParsesNonNegative(bus_slaves[error.slave].io_pins[error.iface]))
         => /\ error.kind = "PinRangeOutOfBounds"
            /\ bus_slaves[error.slave].io_pins[error.iface].kind = "int"
            /\ bus_slaves[error.slave].io_pins[error.iface].n < 0

C7_Witness ==
    /\ FailedAtMappedInterface
    /\ error.kind = "PinRangeOutOfBounds"
    /\ bus_slaves[error.slave].io_pins[error.iface] = IntV(-1)

(* C8 *)

\* C8: whenever a slave with an interrupt line set is bound to a catalog
\* entry that is not interrupt capable, the run ends there with
\* InterruptNotSupported for that slave, the interrupt value being in range
\* or not; and a run with such a slave never succeeds.
C8_InterruptNotSupported ==
    /\ [][(pc = "process" /\ idx <= Len(bus_slaves)
             /\ bus_slaves[idx].irq.set
             /\ NotInterruptCapable(bus_slaves[idx].type))
          => (pc' = "exit" /\ error' = Err("InterruptNotSupported", idx, ""))]_vars
    /\ []((\E i \in Positions : bus_slaves[i].irq.set
                                  /\ NotInterruptCapable(bus_slaves[i].type))
            => (pc # "done" /\ files = NoFiles))

C8_Witness ==
    /\ pc = "exit"
    /\ error.kind = "InterruptNotSupported"
    /\ bus_slaves[error.slave].irq = Irq(3)
    /\ bus_slaves[error.slave].type = "gpio"

(* C9 *)

\* C9: whenever pin resolution examines an interface whose name is no key of
\* the slave's pinMapping, the run ends there with MissingPinMapping for that
\* interface; and a run that succeeds has a pin mapping for every interface
\* of every slave's catalog entry.
C9_MissingPinMapping ==
    /\ [][(AtInterface
             /\ processed_slaves[idx].external_interface[k].name
                  \notin DOMAIN bus_slaves[idx].io_pins)
          => (pc' = "exit"
                /\ error' = Err("MissingPinMapping", idx,
                                processed_slaves[idx].external_interface[k].name))]_vars
    /\ [](pc = "done"
            => \A i \in Positions : \A iface \in InterfacesOf(bus_slaves[i].type) :
                   iface.name \in DOMAIN bus_slaves[i].io_pins)

C9_Witness ==
    /\ pc = "exit"
    /\ error.kind = "MissingPinMapping"
    /\ error.iface = "tx"
    /\ "tx" \notin DOMAIN bus_slaves[error.slave].io_pins

(* C10 *)

\* C10: whenever the pin-mapping table of a slave is converted and one of its
\* values is not integer-convertible, the run ends there with
\* IoPinConversionError for that slave, also when the offending key names no
\* interface of the slave's catalog entry; a run with such a slave never
\* succeeds.
C10_IoPinConversionError ==
    /\ [][(pc = "convert"
             /\ \E key \in DOMAIN bus_slaves[idx].io_pins :
                    bus_slaves[idx].io_pins[key].kind = "text")
          => (pc' = "exit" /\ error' = Err("IoPinConversionError", idx, ""))]_vars
    /\ []((\E i \in Positions : \E key \in DOMAIN bus_slaves[i].io_pins :
               bus_slaves[i].io_pins[key].kind = "text")
            => (pc # "done" /\ files = NoFiles))

C10_Witness ==
    /\ pc = "exit"
    /\ error.kind = "IoPinConversionError"
    /\ bus_slaves[error.slave].type = "uart"
    /\ bus_slaves[error.slave].io_pins = IoPins(IntV(5), StrV(6), TextV)

(* C11 *)

\* The pin claims made before interface j of slave i is examined, in order:
\* <<slave, interface>> pairs.
ClaimsBefore(i, j) ==
    {c \in UNION {{<<a, b>> : b \in 1..Len(processed_slaves[a].external_interface)}
                    : a \in 1..Len(processed_slaves)} :
        c[1] < i \/ (c[1] = i /\ c[2] < j)}

ClaimIface(c) == processed_slaves[c[1]].external_interface[c[2]]

ClaimPins(c) ==
    LET start == processed_slaves[c[1]].io_pins[ClaimIface(c).name].n
    IN start .. (start + ClaimIface(c).width - 1)

\* 0 InputPassthrough, 1 OutputDriven, 2 OutputEnableControlled.
ClaimRole(c) ==
    IF ClaimIface(c).direction \in {"input", "Input", "INPUT"} THEN 0
    ELSE IF ClaimIface(c).output_control THEN 2 ELSE 1

Earlier(c, d) == c[1] < d[1] \/ (c[1] = d[1] /\ c[2] <= d[2])

\* The role the claim's rule gives pin p after the claims cs.
RuleRole(p, cs) ==
    LET on == {c \in cs : p \in ClaimPins(c)}
    IN IF \E c \in on : ClaimRole(c) = 2 THEN 2
       ELSE ClaimRole(CHOOSE c \in on : \A d \in on : Earlier(c, d))

\* C11: during and after pin resolution the pin table equals the result of
\* applying the claims made so far, in order, with: input and plain output
\* claims take a pin only if it has no role yet, an output-controlled claim
\* takes it unconditionally; a pin that is OutputEnableControlled stays so;
\* and uart{rx: 5, tx: 6} ends with pin 5 InputPassthrough, pin 6 OutputDriven.
C11_PinPlan ==
    /\ [](pc \in {"connect", "write_v", "write_h", "done"}
            => LET cs == ClaimsBefore(idx, k)
               IN /\ DOMAIN io_oen_assignments = UNION {ClaimPins(c) : c \in cs}
                  /\ \A p \in DOMAIN io_oen_assignments :
                         io_oen_assignments[p] = RuleRole(p, cs))
    /\ [][\A p \in DOMAIN io_oen_assignments :
              io_oen_assignments[p] = 2
                => (p \in DOMAIN io_oen_assignments' /\ io_oen_assignments'[p] = 2)]_vars
    /\ []((pc = "done" /\ Len(bus_slaves) = 1 /\ bus_slaves[1].type = "uart"
             /\ bus_slaves[1].io_pins = IoPins(IntV(5), IntV(6), AbsentV))
            => io_oen_assignments = (5 :> 0) @@ (6 :> 1))

C11_Witness ==
    /\ pc = "done"
    /\ Len(bus_slaves) = 2
    /\ bus_slaves[1].type = "uart"
    /\ bus_slaves[2].type = "gpio"
    /\ io_oen_assignments[5] = 2
    /\ io_oen_assignments[6] = 2


(* C12 *)

\* The interconnect text is complete.
Emitted == pc \in {"write_v", "write_h", "done"}

\* Every interface claim of the configuration.
AllClaims == ClaimsBefore(Len(processed_slaves) + 1, 1)

Claimed == UNION {ClaimPins(c) : c \in AllClaims}

\* The positions of the fixed io_oen / io_out assignments of pin p.
FixedAt(p) == {i \in 1..Len(lines) : lines[i].t \in {"io_oen", "io_out"} /\ lines[i].n = p}

\* What the fixed assignments of pin p say: pairs <<signal, value>>.
FixedOf(p) == {<<lines[i].t, lines[i].m>> : i \in FixedAt(p)}

\* What the rule prescribes for pin p.
Prescribed(p) ==
    IF p \notin Claimed THEN {<<"io_oen", 1>>, <<"io_out", 0>>}
    ELSE IF RuleRole(p, AllClaims) = 0 THEN {<<"io_oen", 0>>}
    ELSE IF RuleRole(p, AllClaims) = 1 THEN {<<"io_oen", 1>>}
    ELSE {}

\* C12: in every emitted interconnect, each pin p of 0..37 gets exactly the
\* fixed assignments of its case: unclaimed, io_oen[p] = 1 and io_out[p] = 0;
\* InputPassthrough, io_oen[p] = 0 only; OutputDriven, io_oen[p] = 1 and no
\* io_out; OutputEnableControlled, none. No assignment is repeated and none
\* names a pin outside 0..37.
C12_DefaultPinStatements ==
    Emitted =>
        /\ \A p \in 0..37 :
              /\ FixedOf(p) = Prescribed(p)
              /\ Cardinality(FixedAt(p)) = Cardinality(Prescribed(p))
        /\ \A i \in 1..Len(lines) :
              lines[i].t \in {"io_oen", "io_out"} => lines[i].n \in 0..37

C12_Witness ==
    /\ pc = "done"
    /\ 0 \notin Claimed /\ FixedOf(0) = {<<"io_oen", 1>>, <<"io_out", 0>>}
    /\ 7 \in Claimed /\ RuleRole(7, AllClaims) = 1 /\ FixedOf(7) = {<<"io_oen", 1>>}
    /\ 5 \in Claimed /\ RuleRole(5, AllClaims) = 2 /\ FixedOf(5) = {}

(* C13 *)

\* The catalog entry of type t.
CatalogEntry(t) == ip_library[CHOOSE e \in 1..Len(ip_library) : ip_library[e].name = t]

\* The entry declares bus kind WB or GENERIC, in any letter case.
DeclaresWishbone(t) ==
    \E b \in 1..Len(CatalogEntry(t).bus) :
        Upper(CatalogEntry(t).bus[b]) \in {"WB", "GENERIC"}

\* The "WB" cost the catalog declares for type t: the first one in order.
WBCosts(t) == {c \in 1..Len(CatalogEntry(t).cell_count) :
                 "WB" \in DOMAIN CatalogEntry(t).cell_count[c]}

WBCost(t) == CatalogEntry(t).cell_count[CHOOSE c \in WBCosts(t) :
                                           \A d \in WBCosts(t) : c <= d]["WB"]

\* The cost as the statement gives it: the WB entry unless absent or non-numeric.
NumericCost(t) ==
    IF ~DeclaresWishbone(t) THEN 0
    ELSE IF WBCosts(t) = {} THEN 0
    ELSE IF WBCost(t).kind \notin {"int", "numstr"} THEN 0
    ELSE WBCost(t).n

\* The cost with the entry counted only when it is written in decimal digits.
DigitsCost(t) ==
    IF ~DeclaresWishbone(t) THEN 0
    ELSE IF WBCosts(t) = {} THEN 0
    ELSE IF WBCost(t).kind \notin {"int", "numstr"} \/ WBCost(t).n < 0 THEN 0
    ELSE WBCost(t).n

RECURSIVE NumericTotal(_)
NumericTotal(n) == IF n = 0 THEN 0
                   ELSE NumericTotal(n - 1) + NumericCost(bus_slaves[n].type)

RECURSIVE DigitsTotal(_)
DigitsTotal(n) == IF n = 0 THEN 0
                  ELSE DigitsTotal(n - 1) + DigitsCost(bus_slaves[n].type)

\* generate_verilog has started: the total is in the text.
TotalExposed == pc \in {"connect", "write_v", "write_h", "done"}

\* Binding slave idx, whose type is in the catalog, lacks bus support, and
\* whose interrupt request (if any) the entry can serve.
BindingUnsupported ==
    /\ pc = "process"
    /\ idx <= Len(bus_slaves)
    /\ ~AbsentType(bus_slaves[idx].type)
    /\ ~DeclaresWishbone(bus_slaves[idx].type)
    /\ ~(bus_slaves[idx].irq.set /\ NotInterruptCapable(bus_slaves[idx].type))

\* An unsupported bus is a warning for that slave and the run goes on.
WarnsAndContinues ==
    [][BindingUnsupported => (pc' = "convert" /\ warnings' = Append(warnings, idx))]_vars

UartScenario == Len(bus_slaves) = 1 /\ bus_slaves[1].type = "uart"

\* C13 as stated: the total exposed to the emitter is the sum over the bound
\* slaves of their cost, the cost being 0 with a warning (and the run going
\* on) for a type without WB/GENERIC support, else the "WB" entry of the
\* declared costs, or 0 if that entry is absent or non-numeric; 120 for the
\* uart scenario.
C13_TotalCost ==
    /\ [](TotalExposed =>
            /\ lines[1].t = "TOTAL_WB_CELL_COUNT"
            /\ lines[1].n = NumericTotal(Len(bus_slaves))
            /\ (UartScenario => lines[1].n = 120))
    /\ [](\A i \in 1..Len(processed_slaves) :
            processed_slaves[i].cell_count = NumericCost(bus_slaves[i].type))
    /\ WarnsAndContinues

\* C13 amended: as above, with the "WB" entry counted only when it is a
\* non-negative whole number written in decimal digits; any other entry,
\* a negative number included, gives 0.
C13_TotalCostOfDigits ==
    /\ [](TotalExposed =>
            /\ lines[1].t = "TOTAL_WB_CELL_COUNT"
            /\ lines[1].n = DigitsTotal(Len(bus_slaves))
            /\ (UartScenario => lines[1].n = 120))
    /\ [](\A i \in 1..Len(processed_slaves) :
            processed_slaves[i].cell_count = DigitsCost(bus_slaves[i].type))
    /\ WarnsAndContinues

C13_Witness ==
    /\ pc = "done"
    /\ Len(bus_slaves) = 2
    /\ bus_slaves[1].type = "uart" /\ bus_slaves[2].type = "gpio"
    /\ lines[1].n = 200



(* C14 *)

HeaderEmitted == pc = "done" \/ (pc = "exit" /\ error = Err("WriteFailed", 0, "h"))

\* The instance names of the configurations, upper-cased, by position.
UpperNames == <<"UART0", "DEV1", "DEV2", "DEV3">>

\* The header value v is the conversion of the resolved address a.
ConvertedFrom(v, a) ==
    IF a.form \in {"vhex", "vHex"} THEN v.form = "chex" /\ v.digits = a.digits
    ELSE IF a.form = "chex" THEN v = a
    ELSE IF a.form = "dec" THEN v.form = "chex" /\ HexValue(v.digits) = DecValue(a.digits)
    ELSE v = a

\* C15: the header has exactly one constant per resolved slave, in declaration
\* order, named <INSTANCE NAME IN UPPER CASE>_BASE, whose value is the resolved
\* base address with 32'h / 32'H replaced by 0x, a 0x literal kept, another
\* numeric literal rendered in hexadecimal and anything else unchanged; uart0
\* at computed index 0 gives UART0_BASE 0x10000000.
C15_HeaderConstants ==
    HeaderEmitted =>
        /\ Len(header_code) = Len(bus_slaves)
        /\ Len(processed_slaves) = Len(bus_slaves)
        /\ \A i \in 1..Len(header_code) :
              /\ bus_slaves[i].name = InstanceNames[i]
              /\ header_code[i].macro_name = <<UpperNames[i], "_BASE">>
              /\ ConvertedFrom(header_code[i].base_addr_c, processed_slaves[i].base_address)
              /\ Truthy(bus_slaves[i].base_address) =>
                    processed_slaves[i].base_address = bus_slaves[i].base_address
        /\ (Len(bus_slaves) >= 1 /\ ~Truthy(bus_slaves[1].base_address)) =>
              header_code[1] = [macro_name |-> <<"UART0", "_BASE">>,
                                base_addr_c |-> [form |-> "chex",
                                                 digits |-> <<1, 0, 0, 0, 0, 0, 0, 0>>]]

C15_Witness ==
    /\ pc = "done"
    /\ Len(bus_slaves) = 2
    /\ bus_slaves[1].base_address.form = "vhex"
    /\ header_code[1].base_addr_c = [form |-> "chex", digits |-> <<1, 0, 0, 1, 0, 0, 0, 0>>]
    /\ header_code[2].macro_name = <<"DEV1", "_BASE">>
    /\ header_code[2].base_addr_c = [form |-> "chex", digits |-> <<1, 0, 0, 1, 0, 0, 0, 0>>]



(* C16 *)

\* C16: in every run that completes successfully no pin of 0..37 lies in the
\* claimed ranges of two different interfaces, of the same slave or of
\* different slaves.
C16_PinClaimedOnce ==
    pc = "done" =>
        \A c, d \in AllClaims : c # d => ClaimPins(c) \cap ClaimPins(d) \cap (0..37) = {}



(* C17 *)

\* Slave i violates a constraint that binding checks: its type is not in the
\* catalog, it requests an interrupt its entry cannot serve, or one of its
\* pin values is no number.
BindingViolation(i) ==
    \/ AbsentType(bus_slaves[i].type)
    \/ bus_slaves[i].irq.set /\ NotInterruptCapable(bus_slaves[i].type)
    \/ \E key \in DOMAIN bus_slaves[i].io_pins : bus_slaves[i].io_pins[key].kind = "text"

IsDirection(d) == d \in {"input", "Input", "INPUT", "output", "Output", "OUTPUT"}

\* Slave i violates a constraint that pin resolution or the interrupt range
\* check enforces.
ResolutionViolation(i) ==
    \/ \E iface \in InterfacesOf(bus_slaves[i].type) :
          \/ iface.name \notin DOMAIN bus_slaves[i].io_pins
          \/ /\ iface.name \in DOMAIN bus_slaves[i].io_pins
             /\ \/ bus_slaves[i].io_pins[iface.name].n < 0
                \/ bus_slaves[i].io_pins[iface.name].n + iface.width - 1 > 37
          \/ ~IsDirection(iface.direction)
    \/ OutsideIrqBus(bus_slaves[i].irq)

BindingViolators == {i \in Positions : BindingViolation(i)}

Violators == {i \in Positions : BindingViolation(i) \/ ResolutionViolation(i)}

Earliest(S) == CHOOSE m \in S : \A x \in S : m <= x

FatalValidation == pc = "exit" /\ error.kind \in ValidationErrors

\* C17 as stated: the fatal error a run reports is that of the earliest slave,
\* in declaration order, that violates any fatal constraint.
C17_EarliestViolatingSlave ==
    FatalValidation => (Violators # {} /\ error.slave = Earliest(Violators))

\* C17 amended: every slave is bound and converted before the pins of any
\* slave are resolved; so the reported error is that of the earliest slave
\* with a binding violation if there is one, whatever the slaves before it
\* violate in pin resolution or interrupt range, and otherwise that of the
\* earliest violating slave.
C17_BindingBeforeResolution ==
    /\ pc \in {"connect", "write_v", "write_h", "done"}
          => (Len(processed_slaves) = Len(bus_slaves) /\ BindingViolators = {})
    /\ FatalValidation =>
          /\ Violators # {}
          /\ error.slave = IF BindingViolators # {} THEN Earliest(BindingViolators)
                           ELSE Earliest(Violators)
          /\ BindingViolators # {}
                <=> error.kind \in {"UnknownSlaveType", "InterruptNotSupported",
                                    "IoPinConversionError"}

C17_Witness ==
    /\ pc = "exit"
    /\ Len(bus_slaves) = 2
    /\ error = Err("UnknownSlaveType", 2, "")
    /\ bus_slaves[1].type = "uart"
    /\ "tx" \notin DOMAIN bus_slaves[1].io_pins
    /\ ~BindingViolation(1)
    /\ ResolutionViolation(1)


====
